---- MODULE Spec2Model ----
(***************************************************************************)
(* PAWS command-line front end (paws/clis/evaluation.py) and the parameter *)
(* helpers of paws/utils.py.                                               *)
(*                                                                         *)
(*   SpecLandscape : invocations of compute_semi_weakly_landscape, run by  *)
(*                   concurrent OS processes over one output directory.    *)
(*   SpecGather    : one run of gather_model_results.                      *)
(*   SpecUtils     : calls of the helpers of paws/utils.py.                *)
(***************************************************************************)
EXTENDS Integers, Sequences, FiniteSets, TLC

VARIABLES
    \* ---- compute_semi_weakly_landscape ----
    pc,        \* position of each process inside the command
    kwargs,    \* the options each process was invoked with
    trainer,   \* the arguments each process built its ModelTrainer with
    outname,   \* the output path each process resolved
    sawFile,   \* whether a file was at outname when the process reached line 127
    trace,     \* the calls each process has made in its current invocation
    files,     \* the output tree: path -> content
    dirs,      \* the directories of the output tree that exist
    runs,      \* invocations started so far
    \* ---- gather_model_results ----
    gpc,       \* position inside gather_model_results
    gkwargs,   \* its options
    dfs,       \* result_loader.dfs: keys of the model types with loaded results
    gmetrics,  \* the metric list handed to decorate_results
    gtrace,    \* the calls the command has made
    gdirs,     \* directories the command created
    gfiles,    \* files the command wrote
    \* ---- paws/utils.py ----
    settings,  \* paws.settings as imported
    calls      \* the helper calls made so far, with their outcomes

lvars == <<pc, kwargs, trainer, outname, sawFile, trace, files, dirs, runs>>
gvars == <<gpc, gkwargs, dfs, gmetrics, gtrace, gdirs, gfiles>>
uvars == <<settings, calls>>
vars == <<pc, kwargs, trainer, outname, sawFile, trace, files, dirs, runs,
          gpc, gkwargs, dfs, gmetrics, gtrace, gdirs, gfiles, settings, calls>>

Range(s) == {s[k] : k \in DOMAIN s}

(***************************************************************************)
(* Bounds of the model.                                                    *)
(***************************************************************************)
\* invocations of compute_semi_weakly_landscape started in one behaviour
MaxRuns == 2
\* options of one invocation that differ from the command's defaults
MaxDeviations == 1
\* length of the --metrics list of gather_model_results
MaxMetrics == 2
\* helper calls of paws/utils.py in one behaviour
MaxCalls == 2

(***************************************************************************)
(* compute_semi_weakly_landscape                                           *)
(***************************************************************************)
\* The OS processes that run the command; they share only the output tree.
Procs == {"p1", "p2"}

kCommonKeys == {"high_level", "decay_modes", "variables", "noise_dimension",
                "index_path", "split_index", "seed", "batchsize", "cache_dataset",
                "datadir", "outdir", "cache", "multi_gpu", "verbosity", "loss"}

\* The click defaults of the options the model varies (None is "None", 0 for
\* nbootstrap); mass_point and mu are required options, held fixed.
DefaultOptions ==
    [mass_point  |-> "300:300",
     mu          |-> "0.01",
     param_expr  |-> "m1=0_600_50,m2=0_600_50",
     metrics     |-> "None",
     nbootstrap  |-> 0,
     tag         |-> "default",
     high_level  |-> TRUE,
     cache       |-> TRUE,
     split_index |-> 0]

\* One other value for each option the model varies.
OtherOptions ==
    [param_expr  |-> "mu=0.1",
     metrics     |-> "auc",
     nbootstrap  |-> 10,
     tag         |-> "rerun",
     high_level  |-> FALSE,
     cache       |-> FALSE,
     split_index |-> 1]

\* The command lines of the model: the defaults with at most MaxDeviations
\* options changed.
Options ==
    {[k \in DOMAIN DefaultOptions |->
          IF k \in D THEN OtherOptions[k] ELSE DefaultOptions[k]] :
       D \in {D \in SUBSET (DOMAIN OtherOptions) : Cardinality(D) <= MaxDeviations}}

\* dict.pop of a set of keys
Pop(d, keys) == [k \in (DOMAIN d) \ keys |-> d[k]]

\* what is left of **kwargs once param_expr, metrics, nbootstrap and tag are
\* popped (seed is read, not popped)
TrainerKwargs(kw) == Pop(kw, {"param_expr", "metrics", "nbootstrap", "tag"})

\* get_model_trainer: the arguments ModelTrainer is constructed with. The
\* common keys move to init_kwargs, the rest become model_options, and
\* high_level is popped from init_kwargs before the constructor is called.
get_model_trainer(kw) ==
    LET init_kwargs == [k \in (DOMAIN kw) \cap kCommonKeys |-> kw[k]]
        model_options == Pop(kw, kCommonKeys)
    IN  [model_type    |-> "semi_weakly",
         init_kwargs   |-> Pop(init_kwargs, {"high_level"}),
         model_options |-> model_options]

\* path_manager.get_file("semi_weakly_landscape", **parameters, ds_type="train"):
\* the path is taken to encode every parameter it is given, injectively.
OutName(model_trainer, kw, tag) ==
    [mass_point  |-> model_trainer.model_options["mass_point"],
     mu          |-> model_trainer.model_options["mu"],
     split_index |-> kw["split_index"],
     tag         |-> tag]

ResolvedPath(kw) ==
    OutName(get_model_trainer(TrainerKwargs(kw)), TrainerKwargs(kw), kw["tag"])

Paths == {ResolvedPath(kw) : kw \in Options}

\* landscape.eval_semiweakly(model, datasets['train'], param_expr, metrics,
\* nbootstrap, seed): the result is determined by the model and the dataset
\* split the trainer hands over (its model options and split index) and by
\* the three evaluation arguments; the seed is held fixed.
eval_semiweakly(model_trainer, kw) ==
    [model_options |-> model_trainer.model_options,
     split_index   |-> model_trainer.init_kwargs["split_index"],
     param_expr    |-> kw["param_expr"],
     metrics       |-> kw["metrics"],
     nbootstrap    |-> kw["nbootstrap"]]

\* Content of a path of the output tree.
Absent == [state |-> "absent", result |-> <<>>]
Truncated == [state |-> "partial", result |-> <<>>]
Garbled == [state |-> "garbled", result |-> <<>>]
Complete(result) == [state |-> "complete", result |-> <<result>>]

\* os.path.exists
Exists(fs, path) == fs[path].state # "absent"

\* line 127: the cache test
CacheHitUnchecked(kw, fs, path) == kw["cache"]
CacheHitInverted(kw, fs, path) == ~kw["cache"] /\ Exists(fs, path)
CacheHit(kw, fs, path) == kw["cache"] /\ Exists(fs, path)

\* open(outname, 'w'): creates the file, or truncates the one there
Opened(fs, path) == [fs EXCEPT ![path] = Truncated]

\* json.dump through the process's own descriptor, then close. When another
\* process has written different bytes to the file since this process opened
\* it, the two streams share the file and the bytes left are either stream's
\* or a mix of both.
Dumped(fs, path, result) ==
    IF fs[path] \in {Truncated, Complete(result)}
    THEN {[fs EXCEPT ![path] = Complete(result)]}
    ELSE {[fs EXCEPT ![path] = Complete(result)], [fs EXCEPT ![path] = Garbled]}

Running == {"get_datasets", "get_model", "eval_semiweakly", "makedirs", "open", "json.dump"}

LInit ==
    /\ pc = [i \in Procs |-> "idle"]
    /\ kwargs = [i \in Procs |-> DefaultOptions]
    /\ trainer = [i \in Procs |-> get_model_trainer(TrainerKwargs(DefaultOptions))]
    /\ outname = [i \in Procs |-> ResolvedPath(DefaultOptions)]
    /\ sawFile = [i \in Procs |-> FALSE]
    /\ trace = [i \in Procs |-> <<>>]
    /\ files = [p \in Paths |-> Absent]
    /\ dirs = {}
    /\ runs = 0

\* Lines 107-129: a process is started with options kw, pops the evaluation
\* options, builds the trainer, resolves the output path and tests the cache.
Invoke(i) ==
    /\ pc[i] \in {"idle", "done", "aborted"}
    /\ runs < MaxRuns
    /\ \E kw \in Options :
          LET model_trainer == get_model_trainer(TrainerKwargs(kw))
              path == OutName(model_trainer, TrainerKwargs(kw), kw["tag"])
              hit == CacheHit(kw, files, path)
          IN  /\ kwargs' = [kwargs EXCEPT ![i] = kw]
              /\ trainer' = [trainer EXCEPT ![i] = model_trainer]
              /\ outname' = [outname EXCEPT ![i] = path]
              /\ sawFile' = [sawFile EXCEPT ![i] = Exists(files, path)]
              /\ pc' = [pc EXCEPT ![i] = IF hit THEN "done" ELSE "get_datasets"]
              /\ trace' = [trace EXCEPT ![i] =
                              IF hit THEN <<"get_model_trainer", "info_cached">>
                                     ELSE <<"get_model_trainer">>]
    /\ runs' = runs + 1
    /\ UNCHANGED <<files, dirs, gvars, uvars>>

\* Line 130: datasets = model_trainer.get_datasets()
GetDatasets(i) ==
    /\ pc[i] = "get_datasets"
    /\ pc' = [pc EXCEPT ![i] = "get_model"]
    /\ trace' = [trace EXCEPT ![i] = Append(@, "get_datasets")]
    /\ UNCHANGED <<kwargs, trainer, outname, sawFile, files, dirs, runs, gvars, uvars>>

\* Line 131: model = model_trainer.get_model()
GetModel(i) ==
    /\ pc[i] = "get_model"
    /\ pc' = [pc EXCEPT ![i] = "eval_semiweakly"]
    /\ trace' = [trace EXCEPT ![i] = Append(@, "get_model")]
    /\ UNCHANGED <<kwargs, trainer, outname, sawFile, files, dirs, runs, gvars, uvars>>

\* Lines 132-137: result = landscape.eval_semiweakly(...); the result is
\* eval_semiweakly(trainer[i], kwargs[i]), written at line 140
EvalSemiweakly(i) ==
    /\ pc[i] = "eval_semiweakly"
    /\ pc' = [pc EXCEPT ![i] = "makedirs"]
    /\ trace' = [trace EXCEPT ![i] = Append(@, "eval_semiweakly")]
    /\ UNCHANGED <<kwargs, trainer, outname, sawFile, files, dirs, runs, gvars, uvars>>

\* Line 138: os.makedirs(os.path.dirname(outname), exist_ok=True)
MakeDirs(i) ==
    /\ pc[i] = "makedirs"
    /\ dirs' = dirs \cup {outname[i]}
    /\ pc' = [pc EXCEPT ![i] = "open"]
    /\ trace' = [trace EXCEPT ![i] = Append(@, "makedirs")]
    /\ UNCHANGED <<kwargs, trainer, outname, sawFile, files, runs, gvars, uvars>>

\* Line 139: open(outname, 'w')
OpenFile(i) ==
    /\ pc[i] = "open"
    /\ outname[i] \in dirs
    /\ files' = Opened(files, outname[i])
    /\ pc' = [pc EXCEPT ![i] = "json.dump"]
    /\ trace' = [trace EXCEPT ![i] = Append(@, "open")]
    /\ UNCHANGED <<kwargs, trainer, outname, sawFile, dirs, runs, gvars, uvars>>

\* Lines 140-141: json.dump(result, file), the file is closed, the command returns.
JsonDump(i) ==
    /\ pc[i] = "json.dump"
    /\ files' \in Dumped(files, outname[i], eval_semiweakly(trainer[i], kwargs[i]))
    /\ pc' = [pc EXCEPT ![i] = "done"]
    /\ trace' = [trace EXCEPT ![i] = Append(@, "json.dump")]
    /\ UNCHANGED <<kwargs, trainer, outname, sawFile, dirs, runs, gvars, uvars>>

\* The command handles no exception and no signal: a library call that raises,
\* or a kill from outside, ends the process where it stands.
Abort(i) ==
    /\ pc[i] \in Running
    /\ pc' = [pc EXCEPT ![i] = "aborted"]
    /\ UNCHANGED <<kwargs, trainer, outname, sawFile, trace, files, dirs, runs, gvars, uvars>>

LNext ==
    \E i \in Procs :
        \/ Invoke(i)
        \/ GetDatasets(i)
        \/ GetModel(i)
        \/ EvalSemiweakly(i)
        \/ MakeDirs(i)
        \/ OpenFile(i)
        \/ JsonDump(i)
        \/ Abort(i)

(***************************************************************************)
(* gather_model_results                                                    *)
(***************************************************************************)
\* paws.settings.ModelType: the members and their keys.
ModelType ==
    {[name |-> "DEDICATED_SUPERVISED", key |-> "dedicated_supervised"],
     [name |-> "PARAM_SUPERVISED",     key |-> "param_supervised"],
     [name |-> "IDEAL_WEAKLY",         key |-> "ideal_weakly"],
     [name |-> "SEMI_WEAKLY",          key |-> "semi_weakly"]}

ModelTypeKeys == {m.key : m \in ModelType}

\* ModelType.parse
ModelTypeParse(str) == CHOOSE m \in ModelType : m.key = str

\* Strings the command takes apart are sequences of characters.
auc == <<"a", "u", "c">>
accuracy == <<"a", "c", "c", "u", "r", "a", "c", "y">>
log_loss == <<"l", "o", "g", "_", "l", "o", "s", "s">>
sic_ == <<"s", "i", "c", "_">>
sic_1e3 == sic_ \o <<"1", "e", "3">>
sic_1e4 == sic_ \o <<"1", "e", "4">>
sic_1e5 == sic_ \o <<"1", "e", "5">>

\* click.Choice of --metrics
MetricChoices == {auc, accuracy, log_loss, sic_1e3, sic_1e4, sic_1e5}

\* the --metrics lists of the model
MetricLists == UNION {[1..n -> MetricChoices] : n \in 0..MaxMetrics}

\* str.startswith
StartsWith(str, prefix) ==
    /\ Len(str) >= Len(prefix)
    /\ SubSeq(str, 1, Len(prefix)) = prefix

\* str.replace(old, new): every non-overlapping occurrence, left to right
RECURSIVE Replace(_, _, _)
Replace(str, old, new) ==
    IF Len(str) < Len(old) THEN str
    ELSE IF SubSeq(str, 1, Len(old)) = old
         THEN new \o Replace(SubSeq(str, Len(old) + 1, Len(str)), old, new)
         ELSE <<Head(str)>> \o Replace(Tail(str), old, new)

DigitValue(c) ==
    CASE c = "0" -> 0 [] c = "1" -> 1 [] c = "2" -> 2 [] c = "3" -> 3 [] c = "4" -> 4
      [] c = "5" -> 5 [] c = "6" -> 6 [] c = "7" -> 7 [] c = "8" -> 8 [] c = "9" -> 9

RECURSIVE DecimalValue(_)
DecimalValue(digits) ==
    IF digits = <<>> THEN 0
    ELSE 10 * DecimalValue(SubSeq(digits, 1, Len(digits) - 1)) + DigitValue(digits[Len(digits)])

RECURSIVE Pow10(_)
Pow10(n) == IF n = 0 THEN 1 ELSE 10 * Pow10(n - 1)

\* float(str) of a literal <digits> or <digits>e<digits>; the value is integral
Float(str) ==
    LET es == {k \in DOMAIN str : str[k] = "e"}
    IN  IF es = {} THEN DecimalValue(str)
        ELSE LET k == CHOOSE k \in es : TRUE
             IN  DecimalValue(SubSeq(str, 1, k - 1))
                   * Pow10(DecimalValue(SubSeq(str, k + 1, Len(str))))

\* 1 / x, kept exact as a fraction
Reciprocal(x) == [num |-> 1, den |-> x]

\* get_metric, lines 221-225. A str is returned as kind "str", the 3-tuple
\* (name, 'threshold_significance', {"fpr_thres": threshold}) as kind "tuple".
get_metric_not_inverted(name) ==
    IF StartsWith(name, sic_)
    THEN [kind |-> "tuple", name |-> name, func |-> "threshold_significance",
          kwargs |-> [fpr_thres |-> [num |-> Float(Replace(name, sic_, <<>>)), den |-> 1]]]
    ELSE [kind |-> "str", name |-> name]
get_metric(name) ==
    IF StartsWith(name, sic_)
    THEN LET threshold == Reciprocal(Float(Replace(name, sic_, <<>>)))
         IN  [kind |-> "tuple", name |-> name, func |-> "threshold_significance",
              kwargs |-> [fpr_thres |-> threshold]]
    ELSE [kind |-> "str", name |-> name]

\* line 216: no results were loaded for the requested model type
NoResultsAtAll(model_type, loaded) == loaded = {}
NoResults(model_type, loaded) == model_type.key \notin loaded

\* line 219: the model types whose trials are merged
ShouldMergeSemiOnly(model_type) == model_type.name \in {"SEMI_WEAKLY"}
ShouldMerge(model_type) == model_type.name \in {"SEMI_WEAKLY", "IDEAL_WEAKLY"}

\* line 210
FeatureLevel(high_level) == IF high_level THEN "high_level" ELSE "low_level"

\* lines 228-232: the output file, with the default filename template
\* "{model_type}_{feature_level}_{decay_mode}.parquet" (decay modes held fixed)
GatherOutName(kw, model_type) ==
    [dir           |-> "combined_result",
     model_type    |-> model_type.key,
     feature_level |-> FeatureLevel(kw.high_level),
     decay_mode    |-> "qq_qqq"]

GatherOptions ==
    [model_type : ModelTypeKeys, high_level : BOOLEAN,
     metrics : MetricLists, detailed : BOOLEAN]

GInit ==
    /\ gpc = "idle"
    /\ gkwargs = <<>>
    /\ dfs = {}
    /\ gmetrics = <<>>
    /\ gtrace = <<>>
    /\ gdirs = {}
    /\ gfiles = {}

\* Lines 204-214: the options are sorted out, the ResultLoader is built and
\* load() fills result_loader.dfs with what the filters match on disk.
GatherLoad ==
    /\ gpc = "idle"
    /\ \E kw \in GatherOptions, loaded \in SUBSET ModelTypeKeys :
          /\ gkwargs' = kw
          /\ dfs' = loaded
    /\ gtrace' = <<"load">>
    /\ gpc' = "loaded"
    /\ UNCHANGED <<gmetrics, gdirs, gfiles, lvars, uvars>>

\* Lines 215-218
GatherSkip ==
    /\ gpc = "loaded"
    /\ NoResults(ModelTypeParse(gkwargs.model_type), dfs)
    /\ gtrace' = Append(gtrace, "warning")
    /\ gpc' = "done"
    /\ UNCHANGED <<gkwargs, dfs, gmetrics, gdirs, gfiles, lvars, uvars>>

\* Lines 219-220, the merge taken
GatherMerge ==
    /\ gpc = "loaded"
    /\ ~NoResults(ModelTypeParse(gkwargs.model_type), dfs)
    /\ ShouldMerge(ModelTypeParse(gkwargs.model_type))
    /\ gtrace' = Append(gtrace, "merge_trials")
    /\ gpc' = "decorate"
    /\ UNCHANGED <<gkwargs, dfs, gmetrics, gdirs, gfiles, lvars, uvars>>

\* Line 219, the merge not taken
GatherNoMerge ==
    /\ gpc = "loaded"
    /\ ~NoResults(ModelTypeParse(gkwargs.model_type), dfs)
    /\ ~ShouldMerge(ModelTypeParse(gkwargs.model_type))
    /\ gpc' = "decorate"
    /\ UNCHANGED <<gkwargs, dfs, gmetrics, gtrace, gdirs, gfiles, lvars, uvars>>

\* Lines 226-227
GatherDecorate ==
    /\ gpc = "decorate"
    /\ gmetrics' = [k \in DOMAIN gkwargs.metrics |-> get_metric(gkwargs.metrics[k])]
    /\ gtrace' = Append(gtrace, "decorate_results")
    /\ gpc' = "makedirs"
    /\ UNCHANGED <<gkwargs, dfs, gdirs, gfiles, lvars, uvars>>

\* Line 230
GatherMakeDirs ==
    /\ gpc = "makedirs"
    /\ gdirs' = gdirs \cup {"combined_result"}
    /\ gtrace' = Append(gtrace, "makedirs")
    /\ gpc' = "save"
    /\ UNCHANGED <<gkwargs, dfs, gmetrics, gfiles, lvars, uvars>>

\* Lines 231-233
GatherSave ==
    /\ gpc = "save"
    /\ gfiles' = gfiles \cup {[name |-> GatherOutName(gkwargs, ModelTypeParse(gkwargs.model_type)),
                               detailed |-> gkwargs.detailed]}
    /\ gtrace' = Append(gtrace, "save_parquet")
    /\ gpc' = "done"
    /\ UNCHANGED <<gkwargs, dfs, gmetrics, gdirs, lvars, uvars>>

GNext ==
    \/ GatherLoad
    \/ GatherSkip
    \/ GatherMerge
    \/ GatherNoMerge
    \/ GatherDecorate
    \/ GatherMakeDirs
    \/ GatherSave

(***************************************************************************)
(* paws/utils.py                                                           *)
(***************************************************************************)
\* paws.settings.SEMI_WEAKLY_PARAMETERS
SEMI_WEAKLY_PARAMETERS == <<"m1", "m2", "mu", "alpha">>

\* The parameter names the helpers are called with.
ParameterNames == {"m1", "m2", "mu", "alpha", "kappa", "m3", "beta"}

\* Outcome of a call: the object returned (a description of it; its
\* attribute path is the tail of the sequence), or the exception raised.
Returned(obj) == [raised |-> "None", value |-> obj]
Raised(exception) == [raised |-> exception, value |-> <<>>]

\* get_parameter_transform, lines 8-19. Line 15 reads the name actiations,
\* which the module never binds: evaluating it raises NameError.
get_parameter_transform_mu_only(parameter, st) ==
    IF parameter \in {"m1", "m2"} THEN Returned(<<"Scale(1 / MASS_SCALE)">>)
    ELSE IF parameter \in {"mu"}
    THEN IF st.SIGMOID_ACTIVATION THEN Raised("NameError")
         ELSE Returned(<<"Exponential()">>)
    ELSE Raised("ValueError")
get_parameter_transform(parameter, st) ==
    IF parameter \in {"m1", "m2"} THEN Returned(<<"Scale(1 / MASS_SCALE)">>)
    ELSE IF parameter \in {"mu", "alpha"}
    THEN IF st.SIGMOID_ACTIVATION THEN Raised("NameError")
         ELSE IF parameter = "mu" THEN Returned(<<"Exponential()">>)
         ELSE Returned(<<"Linear()">>)
    ELSE Raised("ValueError")

\* get_parameter_inverse_transform, lines 21-22
get_parameter_inverse_transform(parameter, st) ==
    LET transform == get_parameter_transform(parameter, st)
    IN  IF transform.raised # "None" THEN transform
        ELSE Returned(Append(transform.value, "inverse"))

\* The loops of lines 24-28 and 30-34: the dict of the outcomes, or the first
\* exception in the order of SEMI_WEAKLY_PARAMETERS.
Collect(outcomes) ==
    LET failed == {k \in DOMAIN outcomes : outcomes[k].raised # "None"}
    IN  IF failed # {}
        THEN outcomes[CHOOSE k \in failed : \A j \in failed : k <= j]
        ELSE Returned([parameter \in Range(SEMI_WEAKLY_PARAMETERS) |->
                 outcomes[CHOOSE k \in DOMAIN outcomes :
                              SEMI_WEAKLY_PARAMETERS[k] = parameter].value])

get_parameter_transforms(st) ==
    Collect([k \in DOMAIN SEMI_WEAKLY_PARAMETERS |->
                get_parameter_transform(SEMI_WEAKLY_PARAMETERS[k], st)])

get_parameter_inverse_transforms(st) ==
    Collect([k \in DOMAIN SEMI_WEAKLY_PARAMETERS |->
                get_parameter_inverse_transform(SEMI_WEAKLY_PARAMETERS[k], st)])

\* get_parameter_regularizer, lines 36-50
get_parameter_regularizer(parameter, st) ==
    IF parameter \in {"m1", "m2"}
    THEN Returned(<<"MinMaxRegularizer(MASS_RANGE[0] * MASS_SCALE, MASS_RANGE[1] * MASS_SCALE)">>)
    ELSE IF parameter = "mu"
    THEN IF st.SIGMOID_ACTIVATION THEN Returned(<<"None">>)
         ELSE Returned(<<"MinMaxRegularizer(-10.0, 0.0)">>)
    ELSE IF parameter = "alpha"
    THEN IF st.SIGMOID_ACTIVATION THEN Returned(<<"None">>)
         ELSE Returned(<<"MinMaxRegularizer(0.0, 1.0, 10.0)">>)
    ELSE Raised("ValueError")

UInit ==
    /\ settings = <<>>
    /\ calls = <<>>

\* Lines 1-6: the module is imported, and with it the value of the setting.
ImportSettings ==
    /\ settings = <<>>
    /\ \E b \in BOOLEAN : settings' = [SIGMOID_ACTIVATION |-> b]
    /\ UNCHANGED <<calls, lvars, gvars>>

\* A helper can be called once the module is imported.
CanCall == settings # <<>> /\ Len(calls) < MaxCalls

\* The call and its outcome, as kept in calls.
Record(fn, arg, outcome) == [fn |-> fn, arg |-> arg, outcome |-> outcome]

CallTransform ==
    /\ CanCall
    /\ \E p \in ParameterNames :
          calls' = Append(calls, Record("get_parameter_transform", p,
                                        get_parameter_transform(p, settings)))
    /\ UNCHANGED <<settings, lvars, gvars>>

CallInverseTransform ==
    /\ CanCall
    /\ \E p \in ParameterNames :
          calls' = Append(calls, Record("get_parameter_inverse_transform", p,
                                        get_parameter_inverse_transform(p, settings)))
    /\ UNCHANGED <<settings, lvars, gvars>>

CallTransforms ==
    /\ CanCall
    /\ calls' = Append(calls, Record("get_parameter_transforms", "",
                                     get_parameter_transforms(settings)))
    /\ UNCHANGED <<settings, lvars, gvars>>

CallInverseTransforms ==
    /\ CanCall
    /\ calls' = Append(calls, Record("get_parameter_inverse_transforms", "",
                                     get_parameter_inverse_transforms(settings)))
    /\ UNCHANGED <<settings, lvars, gvars>>

CallRegularizer ==
    /\ CanCall
    /\ \E p \in ParameterNames :
          calls' = Append(calls, Record("get_parameter_regularizer", p,
                                        get_parameter_regularizer(p, settings)))
    /\ UNCHANGED <<settings, lvars, gvars>>

UNext ==
    \/ ImportSettings
    \/ CallTransform
    \/ CallInverseTransform
    \/ CallTransforms
    \/ CallInverseTransforms
    \/ CallRegularizer

Init == LInit /\ GInit /\ UInit

SpecLandscape == Init /\ [][LNext]_vars
SpecGather == Init /\ [][GNext]_vars
SpecUtils == Init /\ [][UNext]_vars

(***************************************************************************)
(* Properties                                                              *)
(***************************************************************************)
Called(i, what) == what \in Range(trace[i])
Started(i) == pc[i] # "idle"
CacheEnabled(i) == kwargs[i]["cache"]
\* position of a call in the trace of gather_model_results, 0 when not made
GatherIndex(what) ==
    IF what \in Range(gtrace) THEN CHOOSE k \in DOMAIN gtrace : gtrace[k] = what ELSE 0
Requested == ModelTypeParse(gkwargs.model_type)
FixedParameters == {"m1", "m2", "mu", "alpha"}

\* C1: an invocation with caching enabled that finds a file at its resolved
\* output path loads no dataset and no model, evaluates no landscape, creates
\* no directory, neither opens nor writes the file, and has returned.
C1_CacheHitSkipsAllWork ==
    \A i \in Procs :
        (Started(i) /\ CacheEnabled(i) /\ sawFile[i]) =>
            /\ pc[i] = "done"
            /\ Range(trace[i]) \cap Running = {}

\* C1 witness: a landscape file is in place, written by one invocation, and
\* another invocation with caching enabled found it and has returned.
C1_Witness ==
    \E i \in Procs : \E j \in Procs \ {i} :
        /\ pc[i] = "done" /\ CacheEnabled(i) /\ sawFile[i]
        /\ outname[j] = outname[i] /\ Called(j, "json.dump")
        /\ files[outname[i]].state = "complete"

\* C2: of two invocations on the same output path, both with caching
\* enabled and both finding no file at the existence test, neither is
\* turned away as a cache hit: each that runs to its end has evaluated the
\* landscape and written the file.
C2_BothPassCheckBothWrite ==
    \A i \in Procs : \A j \in Procs \ {i} :
        (/\ Started(i) /\ Started(j)
         /\ outname[i] = outname[j]
         /\ CacheEnabled(i) /\ CacheEnabled(j)
         /\ ~sawFile[i] /\ ~sawFile[j]) =>
            /\ ~Called(i, "info_cached")
            /\ pc[i] = "done" =>
                  /\ Called(i, "eval_semiweakly")
                  /\ Called(i, "open")
                  /\ Called(i, "json.dump")

\* C2 witness: both invocations found no file (so each made its test before
\* the other opened the file), and both have evaluated and written.
C2_Witness ==
    \E i \in Procs : \E j \in Procs \ {i} :
        /\ outname[i] = outname[j]
        /\ CacheEnabled(i) /\ CacheEnabled(j)
        /\ ~sawFile[i] /\ ~sawFile[j]
        /\ pc[i] = "done" /\ pc[j] = "done"
        /\ Called(i, "eval_semiweakly") /\ Called(j, "eval_semiweakly")
        /\ Called(i, "json.dump") /\ Called(j, "json.dump")

\* C3: when the loaded results hold no entry for the requested model type,
\* the command merges nothing, decorates nothing, creates no directory and
\* writes no file, and it ends with the warning.
C3_NoResultsNoOutput ==
    (gpc # "idle" /\ Requested.key \notin dfs) =>
        /\ Range(gtrace) \cap {"merge_trials", "decorate_results", "makedirs", "save_parquet"} = {}
        /\ gmetrics = <<>>
        /\ gdirs = {}
        /\ gfiles = {}
        /\ gpc \in {"loaded", "done"}
        /\ gpc = "done" => gtrace = <<"load", "warning">>

\* C3 witness: results were loaded for other model types only, and the
\* command has ended.
C3_Witness ==
    /\ gpc = "done"
    /\ dfs # {}
    /\ Requested.key \notin dfs
    /\ gtrace[Len(gtrace)] = "warning"

\* C4 as stated: a finished run has merged the trials exactly when the model
\* type is SEMI_WEAKLY or IDEAL_WEAKLY, and has decorated and saved.
C4_MergeIffWeakly ==
    gpc = "done" =>
        /\ ("merge_trials" \in Range(gtrace)) <=> (Requested.name \in {"SEMI_WEAKLY", "IDEAL_WEAKLY"})
        /\ "decorate_results" \in Range(gtrace)
        /\ "save_parquet" \in Range(gtrace)

\* C4 amended: in a run that found results for the requested model type, the
\* trials are merged exactly when the type is SEMI_WEAKLY or IDEAL_WEAKLY; the
\* finished run has decorated and saved, and a merge came before both.
C4_MergeIffWeaklyWithResults ==
    /\ "merge_trials" \in Range(gtrace) => Requested.name \in {"SEMI_WEAKLY", "IDEAL_WEAKLY"}
    /\ ("merge_trials" \in Range(gtrace) /\ "decorate_results" \in Range(gtrace)) =>
           GatherIndex("merge_trials") < GatherIndex("decorate_results")
    /\ ("merge_trials" \in Range(gtrace) /\ "save_parquet" \in Range(gtrace)) =>
           GatherIndex("merge_trials") < GatherIndex("save_parquet")
    /\ (gpc \in {"decorate", "makedirs", "save", "done"} /\ Requested.key \in dfs) =>
           ("merge_trials" \in Range(gtrace)) <=> (Requested.name \in {"SEMI_WEAKLY", "IDEAL_WEAKLY"})
    /\ (gpc = "done" /\ Requested.key \in dfs) =>
           /\ "decorate_results" \in Range(gtrace)
           /\ "save_parquet" \in Range(gtrace)

\* C4 witness: an IDEAL_WEAKLY run with results has merged, decorated and saved.
C4_Witness ==
    /\ gpc = "done"
    /\ Requested.name = "IDEAL_WEAKLY"
    /\ gtrace = <<"load", "merge_trials", "decorate_results", "makedirs", "save_parquet">>

\* the N of a metric name sic_<N>, read off the name
SicN(name) ==
    CASE name = sic_1e3 -> 1000
      [] name = sic_1e4 -> 10000
      [] name = sic_1e5 -> 100000

\* C5: the list handed to decorate_results has the length and order of the
\* --metrics list; sic_<N> has become (name, 'threshold_significance',
\* {fpr_thres: 1/N}) and every other name is passed as it is.
C5_MetricsTranslated ==
    "decorate_results" \in Range(gtrace) =>
        /\ Len(gmetrics) = Len(gkwargs.metrics)
        /\ \A k \in DOMAIN gkwargs.metrics :
              LET name == gkwargs.metrics[k]
              IN  IF name \in {sic_1e3, sic_1e4, sic_1e5}
                  THEN gmetrics[k] =
                         [kind |-> "tuple", name |-> name, func |-> "threshold_significance",
                          kwargs |-> [fpr_thres |-> [num |-> 1, den |-> SicN(name)]]]
                  ELSE gmetrics[k] = [kind |-> "str", name |-> name]

\* C5 witness: a list mixing a sic metric and a plain one has been translated.
C5_Witness ==
    /\ "decorate_results" \in Range(gtrace)
    /\ gkwargs.metrics = <<sic_1e4, log_loss>>
    /\ gmetrics[1].kind = "tuple"
    /\ gmetrics[2].kind = "str"

\* C6: get_parameter_transform and get_parameter_regularizer raise ValueError
\* for exactly the names outside {m1, m2, mu, alpha}, whatever the value of
\* SIGMOID_ACTIVATION.
C6_UnknownParameterRejected ==
    \A k \in DOMAIN calls :
        calls[k].fn \in {"get_parameter_transform", "get_parameter_regularizer"} =>
            (calls[k].outcome.raised = "ValueError") <=> (calls[k].arg \notin FixedParameters)

\* C6 witness: with the sigmoid setting on, both helpers have rejected a
\* name outside the set.
C6_Witness ==
    /\ settings # <<>> /\ settings.SIGMOID_ACTIVATION
    /\ Len(calls) = 2
    /\ calls[1].fn = "get_parameter_transform" /\ calls[1].arg = "kappa"
    /\ calls[1].outcome.raised = "ValueError"
    /\ calls[2].fn = "get_parameter_regularizer" /\ calls[2].arg = "kappa"
    /\ calls[2].outcome.raised = "ValueError"

\* C7 as stated: the complete landscape file a cache hit leaves in place
\* was computed for the param_expr, the metrics and the nbootstrap that the
\* invocation asked for.
C7_CacheKeyedByRequest ==
    \A i \in Procs :
        (/\ pc[i] = "done" /\ Called(i, "info_cached")
         /\ files[outname[i]].state = "complete") =>
            LET kept == files[outname[i]].result[1]
            IN  /\ kept.param_expr = kwargs[i]["param_expr"]
                /\ kept.metrics = kwargs[i]["metrics"]
                /\ kept.nbootstrap = kwargs[i]["nbootstrap"]

\* C8 as stated: for every name of {m1, m2, mu, alpha} and either value of
\* SIGMOID_ACTIVATION get_parameter_transform returns its activation, and
\* the two dict builders return one entry per semi-weakly parameter.
C8_TransformDefinedOnFixedSet ==
    \A k \in DOMAIN calls :
        /\ (calls[k].fn = "get_parameter_transform" /\ calls[k].arg \in FixedParameters) =>
              /\ calls[k].outcome.raised = "None"
              /\ calls[k].outcome.value =
                    IF calls[k].arg \in {"m1", "m2"} THEN <<"Scale(1 / MASS_SCALE)">>
                    ELSE IF settings.SIGMOID_ACTIVATION THEN <<"Sigmoid()">>
                    ELSE IF calls[k].arg = "mu" THEN <<"Exponential()">>
                    ELSE <<"Linear()">>
        /\ calls[k].fn \in {"get_parameter_transforms", "get_parameter_inverse_transforms"} =>
              /\ calls[k].outcome.raised = "None"
              /\ DOMAIN calls[k].outcome.value = FixedParameters

\* C9 as stated: a file at an output path that no process is writing holds a
\* complete serialized landscape.
C9_FileIsComplete ==
    \A path \in Paths :
        (/\ Exists(files, path)
         /\ \A i \in Procs : ~(outname[i] = path /\ pc[i] = "json.dump")) =>
            files[path].state = "complete"

\* C10 as stated: two invocations that differ only in --high-level/--low-level
\* construct the ModelTrainer with different arguments.
C10_FeatureLevelReachesTrainer ==
    \A i \in Procs : \A j \in Procs \ {i} :
        (/\ Started(i) /\ Started(j)
         /\ kwargs[i]["high_level"] # kwargs[j]["high_level"]
         /\ Pop(kwargs[i], {"high_level"}) = Pop(kwargs[j], {"high_level"})) =>
            trainer[i] # trainer[j]
====
